---------------------------- MODULE Spec2Model ----------------------------
(***************************************************************************)
(* A model of the inventory proxy: the OAuth install/callback flow in its  *)
(* two variants (server.js, self-verifying state tokens; auth.js, a        *)
(* store-backed nonce map), the signature verifier, and the /proxy         *)
(* endpoint with its result cache.                                         *)
(*                                                                         *)
(* Strings are sequences of atoms.  An atom is one of                      *)
(*   [ch |-> c]     the literal characters c (one reserved character, or a *)
(*                  chunk of unreserved ones),                             *)
(*   [mac |-> ..]   the 64 hex digits of HMAC-SHA256(key, msg),            *)
(*   [rnd |-> r]    the 32 hex digits of 16 random bytes,                  *)
(*   [b64 |-> s]    the base64url encoding of the string s,                *)
(*   [json |-> p]   the JSON text of the state payload p,                  *)
(*   [num |-> s]    one byte obtained by coercing an array element.        *)
(* The chunks used are uniquely decodable, so two strings are equal        *)
(* exactly when their atom sequences are.  The keyed hash is taken to be   *)
(* collision free.                                                         *)
(***************************************************************************)
EXTENDS Integers, Sequences, FiniteSets, TLC

VARIABLES
    deployment,   \* "server" (server.js app) or "router" (auth.js router)
    SHOP,         \* process.env.SHOPIFY_SHOP
    API_KEY,      \* process.env.SHOPIFY_API_KEY
    API_SECRET,   \* process.env.SHOPIFY_API_SECRET
    APP_URL,      \* process.env.APP_URL
    ADMIN_TOKEN,  \* server.js: the active admin credential
    allowSet,     \* server.js: the configured location allow-list
    cache,        \* server.js: cacheKey -> [t, v]
    stateStore,   \* auth.js: state -> issue time
    issued,       \* state tokens handed out in install redirects
    now,          \* Date.now()
    inflight,     \* handlers suspended at an await
    ev,           \* what the last handler step received and answered
    fnIn,         \* input of a pure function under test
    fnOut         \* its result

vars == <<deployment, SHOP, API_KEY, API_SECRET, APP_URL, ADMIN_TOKEN, allowSet, cache,
          stateStore, issued, now, inflight, ev, fnIn, fnOut>>

-----------------------------------------------------------------------------
(* JavaScript values as the query parser delivers them *)

UNSET == "undefined"

Undefined == [undef |-> TRUE]
StrV(s) == [str |-> s]
ArrV(a) == [arr |-> a]
ObjV == [obj |-> "Object"]

IsUndef(v) == "undef" \in DOMAIN v
IsStr(v) == "str" \in DOMAIN v
IsArr(v) == "arr" \in DOMAIN v
IsObj(v) == "obj" \in DOMAIN v

Ch(c) == [ch |-> c]
S(c) == <<Ch(c)>>

\* !v
Falsy(v) == IsUndef(v) \/ (IsStr(v) /\ Len(v.str) = 0)

\* a === b for query values: arrays and objects compare by reference
StrictEq(a, b) ==
    \/ IsUndef(a) /\ IsUndef(b)
    \/ IsStr(a) /\ IsStr(b) /\ a.str = b.str

RECURSIVE Join(_, _)
Join(parts, sep) ==
    IF Len(parts) = 0 THEN <<>>
    ELSE IF Len(parts) = 1 THEN parts[1]
    ELSE parts[1] \o sep \o Join(Tail(parts), sep)

\* `${v}`
ToStr(v) ==
    IF IsStr(v) THEN v.str
    ELSE IF IsArr(v) THEN Join(v.arr, S(","))
    ELSE IF IsObj(v) THEN <<Ch("["), Ch("object"), Ch(" "), Ch("Object"), Ch("]")>>
    ELSE S("undefined")

\* the characters encodeURIComponent escapes, with their escapes
PctCode(c) ==
    CASE c = "," -> "2C"
      [] c = "&" -> "26"
      [] c = "=" -> "3D"
      [] c = "%" -> "25"
      [] c = "[" -> "5B"
      [] c = "]" -> "5D"
      [] c = " " -> "20"
      [] OTHER -> ""

RECURSIVE encodeURIComponent(_)
encodeURIComponent(s) ==
    IF Len(s) = 0 THEN <<>>
    ELSE LET a == Head(s)
             esc == IF "ch" \in DOMAIN a THEN PctCode(a.ch) ELSE ""
         IN  (IF esc = "" THEN <<a>> ELSE <<Ch("%"), Ch(esc)>>)
                 \o encodeURIComponent(Tail(s))

\* s.split(c): the maximal pieces between occurrences of the character c
RECURSIVE SplitFrom(_, _, _)
SplitFrom(s, c, cur) ==
    IF Len(s) = 0 THEN <<cur>>
    ELSE IF Head(s) = Ch(c) THEN <<cur>> \o SplitFrom(Tail(s), c, <<>>)
    ELSE SplitFrom(Tail(s), c, Append(cur, Head(s)))

Split(s, c) == SplitFrom(s, c, <<>>)

-----------------------------------------------------------------------------
(* crypto, Buffer, base64url, JSON *)

HexDigestLen == 64
RandomHexLen == 32

\* crypto.createHmac("sha256", key).update(msg).digest("hex")
HmacHex(key, msg) == <<[mac |-> [key |-> key, msg |-> msg]]>>

RECURSIVE ByteLen(_)
ByteLen(s) ==
    IF Len(s) = 0 THEN 0
    ELSE LET a == Head(s)
             n == IF "ch" \in DOMAIN a THEN Len(a.ch)
                  ELSE IF "mac" \in DOMAIN a THEN HexDigestLen
                  ELSE IF "rnd" \in DOMAIN a THEN RandomHexLen
                  ELSE IF "b64" \in DOMAIN a THEN (4 * ByteLen(a.b64) + 2) \div 3
                  ELSE IF "json" \in DOMAIN a THEN 53 + ByteLen(ToStr(a.json.shop))
                  ELSE 1
         IN  n + ByteLen(Tail(s))

\* Buffer.from(v, "utf8"): the bytes, or "throw" (TypeError)
BufferFrom(v) ==
    IF IsStr(v) THEN [ok |-> TRUE, bytes |-> v.str]
    ELSE IF IsArr(v) THEN
        [ok |-> TRUE, bytes |-> [i \in 1..Len(v.arr) |-> [num |-> v.arr[i]]]]
    ELSE [ok |-> FALSE, bytes |-> <<>>]

b64urlEncode(str) == <<[b64 |-> str]>>

\* decoding never throws; what is not base64url text decodes to garbage
b64urlDecode(b64) ==
    IF Len(b64) = 1 /\ "b64" \in DOMAIN b64[1] THEN b64[1].b64
    ELSE S("?")

JSONstringify(payload) == <<[json |-> payload]>>

JSONparses(text) == Len(text) = 1 /\ "json" \in DOMAIN text[1]
JSONparse(text) == text[1].json


-----------------------------------------------------------------------------
(* query objects: the entries of req.query in insertion order *)

Get(q, k) ==
    IF \E i \in 1..Len(q) : q[i].k = k
    THEN q[CHOOSE i \in 1..Len(q) : q[i].k = k].v
    ELSE Undefined

\* the parameter names that occur, in the order of the < of JavaScript strings
KeyOrder == <<"code", "hmac", "host", "shop", "signature", "state", "timestamp">>

KeyIndex(k) == CHOOSE i \in 1..Len(KeyOrder) : KeyOrder[i] = k

\* a < b on keys
KeyLt(a, b) == KeyIndex(a) < KeyIndex(b)

RECURSIVE InsertEntry(_, _)
InsertEntry(e, sorted) ==
    IF Len(sorted) = 0 THEN <<e>>
    ELSE IF KeyLt(e.k, Head(sorted).k) THEN <<e>> \o sorted
    ELSE <<Head(sorted)>> \o InsertEntry(e, Tail(sorted))

\* the entries left in the order they were supplied
EntriesAsSupplied(es) == es

\* entries.sort(([a], [b]) => (a < b ? -1 : a > b ? 1 : 0))
RECURSIVE SortEntries(_)
SortEntries(es) ==
    IF Len(es) = 0 THEN <<>>
    ELSE InsertEntry(es[Len(es)], SortEntries(SubSeq(es, 1, Len(es) - 1)))

\* .filter(([k]) => k !== "hmac" && k !== "signature")
FilterReserved(es) == SelectSeq(es, LAMBDA e : e.k # "hmac" /\ e.k # "signature")

\* `${k}=${encodeURIComponent(Array.isArray(v) ? v.join(",") : `${v}`)}`
EncodedPair(e) == S(e.k) \o S("=") \o encodeURIComponent(ToStr(e.v))

\* the message verifyShopifyHmac signs
CanonicalMessage(queryObj) ==
    LET es == SortEntries(FilterReserved(queryObj))
    IN  Join([i \in 1..Len(es) |-> EncodedPair(es[i])], S("&"))

\* a.length === b.length && crypto.timingSafeEqual(a, b)
SafeEqual(a, b) == ByteLen(a) = ByteLen(b) /\ a = b

\* server.js verifyShopifyHmac: "true", "false", or "throw"
verifyShopifyHmac(queryObj, apiSecret) ==
    LET message == CanonicalMessage(queryObj)
        b == BufferFrom(Get(queryObj, "hmac"))
    IN  IF apiSecret = UNSET THEN "throw"            \* createHmac: TypeError
        ELSE IF ~b.ok THEN "throw"                   \* Buffer.from: TypeError
        ELSE IF SafeEqual(HmacHex(apiSecret, message), b.bytes) THEN "true"
        ELSE "false"

\* auth.js: Object.keys(params).sort().map(k => `${k}=${params[k]}`).join("&")
RouterMessage(shop, code, state, timestamp) ==
    S("code") \o S("=") \o ToStr(code) \o S("&") \o
    S("shop") \o S("=") \o ToStr(shop) \o S("&") \o
    S("state") \o S("=") \o ToStr(state) \o S("&") \o
    S("timestamp") \o S("=") \o ToStr(timestamp)

\* auth.js: generated !== hmac gives "Invalid HMAC"; "true", "false" or "throw"
routerHmacOk(queryObj, apiSecret) ==
    LET message == RouterMessage(Get(queryObj, "shop"), Get(queryObj, "code"),
                                 Get(queryObj, "state"), Get(queryObj, "timestamp"))
    IN  IF apiSecret = UNSET THEN "throw"
        ELSE IF StrictEq(StrV(HmacHex(apiSecret, message)), Get(queryObj, "hmac"))
             THEN "true"
        ELSE "false"

-----------------------------------------------------------------------------
(* state tokens *)

MaxAgeMs == 10 * 60 * 1000

\* a token whose signature is taken over the JSON text, not its base64url form
createStateTokenOverText(shop, nowMs, nonce, apiSecret) ==
    LET payload == [shop |-> shop, ts |-> nowMs, n |-> nonce]
        payloadB64 == b64urlEncode(JSONstringify(payload))
        sig == HmacHex(apiSecret, JSONstringify(payload))
    IN  payloadB64 \o S(".") \o sig

\* server.js createStateToken, with Date.now() and the random nonce as inputs
createStateToken(shop, nowMs, nonce, apiSecret) ==
    LET payload == [shop |-> shop, ts |-> nowMs, n |-> nonce]
        payloadB64 == b64urlEncode(JSONstringify(payload))
        sig == HmacHex(apiSecret, payloadB64)
    IN  payloadB64 \o S(".") \o sig

\* a verifier that does not compare the shop
ShopNeverMismatches(expectedShop, payloadShop) == FALSE

\* expectedShop && payload.shop !== expectedShop
ShopMismatch(expectedShop, payloadShop) ==
    ~Falsy(expectedShop) /\ ~StrictEq(payloadShop, expectedShop)

\* a verifier without the age check
NeverExpired(nowMs, ts, maxAgeMs) == FALSE

\* Date.now() - payload.ts > maxAgeMs
Expired(nowMs, ts, maxAgeMs) == nowMs - ts > maxAgeMs

\* server.js verifyStateToken: "true", "false", or "throw"
verifyStateToken(token, expectedShop, maxAgeMs, nowMs, apiSecret) ==
    LET parts == Split(ToStr(token), ".")
    IN  IF Len(parts) # 2 THEN "false"
        ELSE IF apiSecret = UNSET THEN "throw"
        ELSE LET payloadB64 == parts[1]
                 sigHex == parts[2]
                 expectedSig == HmacHex(apiSecret, payloadB64)
                 text == b64urlDecode(payloadB64)
             IN  IF ~SafeEqual(expectedSig, sigHex) THEN "false"
                 ELSE IF ~JSONparses(text) THEN "false"
                 ELSE LET payload == JSONparse(text)
                      IN  IF Falsy(payload.shop) \/ payload.ts = 0 THEN "false"
                          ELSE IF ShopMismatch(expectedShop, payload.shop) THEN "false"
                          ELSE IF Expired(nowMs, payload.ts, maxAgeMs) THEN "false"
                          ELSE "true"


-----------------------------------------------------------------------------
(* bounds and input alphabets *)

MaxTicks == 2      \* clock advances per behaviour
MaxIssued == 1     \* state tokens handed out by server.js installs
MaxInflight == 1   \* handlers suspended at an await at one time

TTL_MS == 60 * 1000

HalfTtl == TTL_MS \div 2
StartMs == TTL_MS                      \* Date.now() when the process starts
TickSteps == {HalfTtl, MaxAgeMs}

Elapsed == now - StartMs
TicksUsed == (Elapsed \div MaxAgeMs) + ((Elapsed % MaxAgeMs) \div HalfTtl)

Shops == {"s1", "s2"}                  \* store domains
Nonces == {"n1"}                       \* crypto.randomBytes(8).toString("hex")
StoreNonces == {"r1", "r2"}            \* crypto.randomBytes(16).toString("hex")
AttackerKey == "k-attacker"
PlatformSecret == "k-app"              \* the client secret the platform signs with

NoToken == [tok |-> UNSET, shop |-> <<>>]
EnvToken == [tok |-> "env", shop |-> S("s1")]
\* the access token the platform at host `shop` hands out
PlatformToken(shop) == [tok |-> "at", shop |-> shop]

Idle == [kind |-> "idle"]
NoEvent == [op |-> "none"]

FreeSlots == {i \in DOMAIN inflight : inflight[i] = Idle}
FirstFree == CHOOSE i \in FreeSlots : \A j \in FreeSlots : i <= j

\* a handler step answered: no upstream call is pending for it
Answer(op, req, status, body) ==
    [op |-> op, req |-> req, status |-> status, body |-> body,
     call |-> "none", arg |-> <<>>]

\* a handler step suspended at an await on an upstream call
Await(op, req, call, arg) ==
    [op |-> op, req |-> req, status |-> 0, body |-> "",
     call |-> call, arg |-> arg]

\* a handler step that took the answer got and suspended at the next await
AwaitAfter(op, req, got, call, arg) ==
    [op |-> op, req |-> req, status |-> 0, body |-> "",
     call |-> call, arg |-> arg, got |-> got]

-----------------------------------------------------------------------------
(* the process *)

FullConfig ==
    [SHOP |-> "s1", API_KEY |-> "key", API_SECRET |-> PlatformSecret,
     APP_URL |-> "https://app", ADMIN_TOKEN |-> EnvToken, allow |-> {}]

\* the OAuth settings of process.env, complete or with one of them missing
OAuthConfigs ==
    { FullConfig,
      [FullConfig EXCEPT !.API_KEY = UNSET],
      [FullConfig EXCEPT !.API_SECRET = UNSET],
      [FullConfig EXCEPT !.APP_URL = UNSET] }

\* the proxy settings of process.env: an allow-list set, the token or the
\* store missing (the settings with no allow-list are those of Init)
ProxyConfigs ==
    { [FullConfig EXCEPT !.allow = {"L1"}],
      [FullConfig EXCEPT !.ADMIN_TOKEN = NoToken],
      [FullConfig EXCEPT !.SHOP = UNSET] }

\* the state after the module has been loaded, with room for n suspended handlers
InitSlots(d, c, n) ==
    /\ deployment = d
    /\ SHOP = c.SHOP
    /\ API_KEY = c.API_KEY
    /\ API_SECRET = c.API_SECRET
    /\ APP_URL = c.APP_URL
    /\ ADMIN_TOKEN = c.ADMIN_TOKEN
    /\ allowSet = c.allow
    /\ cache = <<>>
    /\ stateStore = <<>>
    /\ issued = {}
    /\ now = StartMs
    /\ inflight = [i \in 1..n |-> Idle]
    /\ ev = NoEvent

InitWith(d, c) == InitSlots(d, c, MaxInflight)

\* a process started to serve the install/callback flow
InitAuth ==
    /\ \E d \in {"server", "router"}, c \in OAuthConfigs : InitWith(d, c)
    /\ fnIn = <<>>
    /\ fnOut = "none"

\* a server.js process started to serve the proxy
InitProxy ==
    /\ \E c \in ProxyConfigs : InitWith("server", c)
    /\ fnIn = <<>>
    /\ fnOut = "none"

\* the response of the last step has been sent; the next request is taken up
Deliver ==
    /\ ev # NoEvent
    /\ ev' = NoEvent
    /\ UNCHANGED <<deployment, SHOP, API_KEY, API_SECRET, APP_URL, ADMIN_TOKEN,
                   allowSet, cache, stateStore, issued, now, inflight, fnIn, fnOut>>

\* Date.now() moves on between handler steps
Tick ==
    /\ ev = NoEvent
    /\ TicksUsed < MaxTicks
    /\ \E d \in TickSteps : now' = now + d
    /\ UNCHANGED <<deployment, SHOP, API_KEY, API_SECRET, APP_URL, ADMIN_TOKEN,
                   allowSet, cache, stateStore, issued, inflight, ev, fnIn, fnOut>>

-----------------------------------------------------------------------------
(* GET /auth/install *)

AuthorizeUrl(shop, state) ==
    [host |-> ToStr(shop), client_id |-> API_KEY,
     redirect_uri |-> APP_URL, state |-> state]

\* server.js app.get("/auth/install")
InstallServer(shop) ==
    /\ deployment = "server"
    /\ ev = NoEvent
    /\ LET req == [shop |-> shop]
       IN  IF Falsy(shop) THEN
               /\ ev' = Answer("install", req, 400, "Missing shop")
               /\ UNCHANGED issued
           ELSE IF API_KEY = UNSET \/ API_SECRET = UNSET \/ APP_URL = UNSET THEN
               /\ ev' = Answer("install", req, 500, "OAuth env not configured")
               /\ UNCHANGED issued
           ELSE \E n \in Nonces :
               LET state == createStateToken(shop, now, n, API_SECRET)
               IN  /\ Cardinality(issued \cup {state}) <= MaxIssued
                   /\ issued' = issued \cup {state}
                   /\ ev' = Answer("install", req, 302, AuthorizeUrl(shop, state))
    /\ UNCHANGED <<deployment, SHOP, API_KEY, API_SECRET, APP_URL, ADMIN_TOKEN,
                   allowSet, cache, stateStore, now, inflight, fnIn, fnOut>>

\* auth.js router.get("/auth/install")
InstallRouter(shop) ==
    /\ deployment = "router"
    /\ ev = NoEvent
    /\ LET req == [shop |-> shop]
       IN  IF Falsy(shop) THEN
               /\ ev' = Answer("install", req, 400, "Missing shop")
               /\ UNCHANGED stateStore
           ELSE \E r \in StoreNonces :
               LET state == <<[rnd |-> r]>>
               IN  /\ stateStore' = (state :> now) @@ stateStore
                   /\ ev' = Answer("install", req, 302, AuthorizeUrl(shop, state))
    /\ UNCHANGED <<deployment, SHOP, API_KEY, API_SECRET, APP_URL, ADMIN_TOKEN,
                   allowSet, cache, issued, now, inflight, fnIn, fnOut>>


-----------------------------------------------------------------------------
(* GET /auth/callback *)

ExchangeResults == {"throw", "httpError", "noToken", "ok"}

\* the POST to https://${shop}/admin/oauth/access_token
ExchangeCall(q) ==
    [host |-> ToStr(Get(q, "shop")), code |-> Get(q, "code"),
     client_id |-> API_KEY, client_secret |-> API_SECRET]

MissingParams(q) ==
    \/ Falsy(Get(q, "shop"))
    \/ Falsy(Get(q, "hmac"))
    \/ Falsy(Get(q, "code"))
    \/ Falsy(Get(q, "state"))

\* server.js app.get("/auth/callback"), up to the await of the token exchange
CallbackServer(q) ==
    /\ deployment = "server"
    /\ ev = NoEvent
    /\ LET hmacOk == verifyShopifyHmac(q, API_SECRET)
           stateOk == verifyStateToken(Get(q, "state"), Get(q, "shop"),
                                       MaxAgeMs, now, API_SECRET)
       IN  IF MissingParams(q) THEN
               /\ ev' = Answer("callback", q, 400, "Missing params")
               /\ UNCHANGED inflight
           ELSE IF hmacOk = "throw" THEN
               /\ ev' = Answer("callback", q, 500, "Auth callback error")
               /\ UNCHANGED inflight
           ELSE IF hmacOk = "false" THEN
               /\ ev' = Answer("callback", q, 400, "Invalid HMAC")
               /\ UNCHANGED inflight
           ELSE IF stateOk = "throw" THEN
               /\ ev' = Answer("callback", q, 500, "Auth callback error")
               /\ UNCHANGED inflight
           ELSE IF stateOk = "false" THEN
               /\ ev' = Answer("callback", q, 400, "Invalid state")
               /\ UNCHANGED inflight
           ELSE
               /\ FreeSlots # {}
               /\ inflight' = [inflight EXCEPT ![FirstFree] =
                                   [kind |-> "callback", req |-> q]]
               /\ ev' = Await("callback", q, "exchange", ExchangeCall(q))
    /\ UNCHANGED <<deployment, SHOP, API_KEY, API_SECRET, APP_URL, ADMIN_TOKEN,
                   allowSet, cache, stateStore, issued, now, fnIn, fnOut>>

\* a store whose entries lapse after maxAgeMs
StoreHasUnexpired(state) ==
    /\ IsStr(state)
    /\ state.str \in DOMAIN stateStore
    /\ now - stateStore[state.str] <= MaxAgeMs

\* stateStore.has(state): a Map looks strings up by value
StoreHas(state) == IsStr(state) /\ state.str \in DOMAIN stateStore

\* auth.js router.get("/auth/callback"), up to the await of the token exchange
CallbackRouter(q) ==
    /\ deployment = "router"
    /\ ev = NoEvent
    /\ LET hmacOk == routerHmacOk(q, API_SECRET)
       IN  IF MissingParams(q) THEN
               /\ ev' = Answer("callback", q, 400, "Missing params")
               /\ UNCHANGED inflight
           ELSE IF ~StoreHas(Get(q, "state")) THEN
               /\ ev' = Answer("callback", q, 400, "Invalid state")
               /\ UNCHANGED inflight
           ELSE IF hmacOk = "throw" THEN
               /\ ev' = Answer("callback", q, 500, "Auth callback error")
               /\ UNCHANGED inflight
           ELSE IF hmacOk = "false" THEN
               /\ ev' = Answer("callback", q, 400, "Invalid HMAC")
               /\ UNCHANGED inflight
           ELSE
               /\ FreeSlots # {}
               /\ inflight' = [inflight EXCEPT ![FirstFree] =
                                   [kind |-> "callback", req |-> q]]
               /\ ev' = Await("callback", q, "exchange", ExchangeCall(q))
    /\ UNCHANGED <<deployment, SHOP, API_KEY, API_SECRET, APP_URL, ADMIN_TOKEN,
                   allowSet, cache, stateStore, issued, now, fnIn, fnOut>>

\* server.js app.get("/auth/callback") from the answer of the token endpoint on
CallbackServerDone(i, result) ==
    /\ deployment = "server"
    /\ ev = NoEvent
    /\ inflight[i].kind = "callback"
    /\ LET q == inflight[i].req
           accessToken == PlatformToken(ToStr(Get(q, "shop")))
       IN  /\ inflight' = [inflight EXCEPT ![i] = Idle]
           /\ IF result = "throw" THEN
                  /\ ev' = [Answer("exchanged", q, 500, "Auth callback error")
                               EXCEPT !.arg = <<result>>]
                  /\ UNCHANGED ADMIN_TOKEN
              ELSE IF result # "ok" THEN
                  /\ ev' = [Answer("exchanged", q, 500, "Token exchange failed")
                               EXCEPT !.arg = <<result>>]
                  /\ UNCHANGED ADMIN_TOKEN
              ELSE
                  /\ ev' = [Answer("exchanged", q, 200, "App installed!")
                               EXCEPT !.arg = <<result, accessToken>>]
                  /\ ADMIN_TOKEN' = accessToken
    /\ UNCHANGED <<deployment, SHOP, API_KEY, API_SECRET, APP_URL, allowSet,
                   cache, stateStore, issued, now, fnIn, fnOut>>

\* auth.js router.get("/auth/callback") from the answer of the token endpoint on
CallbackRouterDone(i, result) ==
    /\ deployment = "router"
    /\ ev = NoEvent
    /\ inflight[i].kind = "callback"
    /\ LET q == inflight[i].req
           accessToken == PlatformToken(ToStr(Get(q, "shop")))
       IN  /\ inflight' = [inflight EXCEPT ![i] = Idle]
           /\ IF result = "throw" THEN
                  ev' = [Answer("exchanged", q, 500, "Auth callback error")
                            EXCEPT !.arg = <<result>>]
              ELSE IF result # "ok" THEN
                  ev' = [Answer("exchanged", q, 500, "Token exchange failed")
                            EXCEPT !.arg = <<result>>]
              ELSE
                  ev' = [Answer("exchanged", q, 200, "App installed!")
                            EXCEPT !.arg = <<result, accessToken>>]
    /\ UNCHANGED <<deployment, SHOP, API_KEY, API_SECRET, APP_URL, ADMIN_TOKEN,
                   allowSet, cache, stateStore, issued, now, fnIn, fnOut>>

-----------------------------------------------------------------------------
(* GET /proxy *)

Null == [null |-> TRUE]
Num(n) == [n |-> n]

\* location names in the order of localeCompare
NameOrder == <<"Annex", "Store", "Warehouse">>
NameIndex(x) == CHOOSE i \in 1..Len(NameOrder) : NameOrder[i] = x

RECURSIVE InsertLevel(_, _)
InsertLevel(l, sorted) ==
    IF Len(sorted) = 0 THEN <<l>>
    ELSE IF NameIndex(l.location) < NameIndex(Head(sorted).location)
         THEN <<l>> \o sorted
    ELSE <<Head(sorted)>> \o InsertLevel(l, Tail(sorted))

\* levels.sort((a, b) => a.location.localeCompare(b.location)), a stable sort
RECURSIVE SortLevels(_)
SortLevels(ls) ==
    IF Len(ls) = 0 THEN <<>>
    ELSE InsertLevel(ls[Len(ls)], SortLevels(SubSeq(ls, 1, Len(ls) - 1)))

\* edges.map(e => ({locationId, location, available: e.node.available ?? 0}))
MapEdges(edges) ==
    [i \in 1..Len(edges) |->
        [locationId |-> edges[i].id, location |-> edges[i].name,
         available |-> IF edges[i].available = Null THEN 0
                       ELSE edges[i].available.n]]

\* a payload made without looking at the allow-list
LevelsPayloadUnfiltered(edges, allow) == [levels |-> SortLevels(MapEdges(edges))]

\* server.js lines 238-248: the payload made of the answer to the levels query
LevelsPayload(edges, allow) ==
    LET levels == MapEdges(edges)
        kept == IF allow # {} THEN SelectSeq(levels, LAMBDA l : l.locationId \in allow)
                ELSE levels
    IN  [levels |-> SortLevels(kept)]

GidPrefix == <<Ch("gid://"), Ch("shopify/ProductVariant/")>>

\* variantIdRaw.startsWith("gid://")
StartsWithGid(str) == Len(str) > 0 /\ Head(str) = Ch("gid://")

VariantGID(raw) == IF StartsWithGid(raw) THEN raw ELSE GidPrefix \o raw

CacheKey(variantIdRaw) == S("levels:") \o ToStr(variantIdRaw)

\* now - c.t < TTL_MS for the entry under key, if there is one
CacheFresh(key, nowMs) == key \in DOMAIN cache /\ nowMs - cache[key].t < TTL_MS

\* a client that sends the query whether or not a credential is set
adminGraphQLUnchecked(query, id) ==
    [ok |-> TRUE,
     call |-> [host |-> S(SHOP), token |-> ADMIN_TOKEN, query |-> query, id |-> id]]

\* server.js adminGraphQL up to its fetch: the request sent, or the throw
adminGraphQL(query, id) ==
    IF SHOP = UNSET THEN [ok |-> FALSE, call |-> <<>>]
    ELSE IF ADMIN_TOKEN = NoToken THEN [ok |-> FALSE, call |-> <<>>]
    ELSE [ok |-> TRUE,
          call |-> [host |-> S(SHOP), token |-> ADMIN_TOKEN, query |-> query, id |-> id]]

\* a header check that takes any store domain
AnyDomainMatches(shopDomain) == IsStr(shopDomain)

\* shopDomain === SHOP
HeaderMatches(shopDomain) ==
    IsStr(shopDomain) /\ SHOP # UNSET /\ shopDomain.str = S(SHOP)

Forbidden == [error |-> "forbidden"]
VariantRequired == [error |-> "variant_id required"]
LookupFailed == [error |-> "inventory lookup failed"]

\* server.js app.get("/proxy"), up to the await of the first query
ProxyStart(req) ==
    /\ deployment = "server"
    /\ ev = NoEvent
    /\ LET shopDomain == req.domain
           variantIdRaw == req.variant_id
           cacheKey == CacheKey(variantIdRaw)
           q1 == adminGraphQL("VariantToItem", VariantGID(variantIdRaw.str))
       IN  IF Falsy(shopDomain) \/ ~HeaderMatches(shopDomain) THEN
               /\ ev' = Answer("proxy", req, 403, Forbidden)
               /\ UNCHANGED inflight
           ELSE IF Falsy(variantIdRaw) THEN
               /\ ev' = Answer("proxy", req, 400, VariantRequired)
               /\ UNCHANGED inflight
           ELSE IF CacheFresh(cacheKey, now) THEN
               /\ ev' = Answer("proxy", req, 200, cache[cacheKey].v)
               /\ UNCHANGED inflight
           ELSE IF ~IsStr(variantIdRaw) THEN      \* startsWith: TypeError
               /\ ev' = Answer("proxy", req, 500, LookupFailed)
               /\ UNCHANGED inflight
           ELSE IF ~q1.ok THEN
               /\ ev' = Answer("proxy", req, 500, LookupFailed)
               /\ UNCHANGED inflight
           ELSE
               /\ FreeSlots # {}
               /\ inflight' = [inflight EXCEPT ![FirstFree] =
                                   [kind |-> "proxy", pc |-> "q1", req |-> req,
                                    cacheKey |-> cacheKey, now |-> now,
                                    itemId |-> <<>>, calls |-> <<q1.call>>]]
               /\ ev' = Await("proxy", req, "q1", q1.call)
    /\ UNCHANGED <<deployment, SHOP, API_KEY, API_SECRET, APP_URL, ADMIN_TOKEN,
                   allowSet, cache, stateStore, issued, now, fnIn, fnOut>>

ItemResults == {"throw", "httpError", "errors", "noItem", "item", "otherItem"}
ItemId == S("gid://shopify/InventoryItem/7")
OtherItemId == S("gid://shopify/InventoryItem/8")

\* a handler that takes the variant to have the item it saw first
ItemIdAssumed(result) == ItemId

\* itemId = d1?.productVariant?.inventoryItem?.id; empty where there is none
ItemIdOf(result) ==
    IF result = "item" THEN ItemId
    ELSE IF result = "otherItem" THEN OtherItemId
    ELSE <<>>

\* server.js app.get("/proxy") from the answer to the first query to the
\* await of the second
ProxyItem(i, result) ==
    /\ deployment = "server"
    /\ ev = NoEvent
    /\ inflight[i].kind = "proxy"
    /\ inflight[i].pc = "q1"
    /\ LET h == inflight[i]
           itemId == ItemIdOf(result)
           q2 == adminGraphQL("ItemLevels", itemId)
       IN  IF result \in {"throw", "httpError", "errors"} THEN
               /\ ev' = [Answer("item", h.req, 500, LookupFailed) EXCEPT !.arg = <<result>>]
               /\ inflight' = [inflight EXCEPT ![i] = Idle]
           ELSE IF Len(itemId) = 0 THEN
               /\ ev' = [Answer("item", h.req, 200, [levels |-> <<>>])
                            EXCEPT !.arg = <<result>>]
               /\ inflight' = [inflight EXCEPT ![i] = Idle]
           ELSE IF ~q2.ok THEN
               /\ ev' = [Answer("item", h.req, 500, LookupFailed) EXCEPT !.arg = <<result>>]
               /\ inflight' = [inflight EXCEPT ![i] = Idle]
           ELSE
               /\ inflight' = [inflight EXCEPT ![i] =
                                   [h EXCEPT !.pc = "q2", !.itemId = itemId,
                                             !.calls = Append(h.calls, q2.call)]]
               /\ ev' = AwaitAfter("item", h.req, result, "q2", q2.call)
    /\ UNCHANGED <<deployment, SHOP, API_KEY, API_SECRET, APP_URL, ADMIN_TOKEN,
                   allowSet, cache, stateStore, issued, now, fnIn, fnOut>>

\* what the levels query can answer: the edges of inventoryLevels
LevelEdges ==
    { <<>>,
      << [id |-> "L2", name |-> "Warehouse", available |-> Num(5)],
         [id |-> "L1", name |-> "Store", available |-> Null] >> }

\* server.js app.get("/proxy") from the answer to the second query on
ProxyLevels(i, result, edges) ==
    /\ deployment = "server"
    /\ ev = NoEvent
    /\ inflight[i].kind = "proxy"
    /\ inflight[i].pc = "q2"
    /\ LET h == inflight[i]
           payload == LevelsPayload(edges, allowSet)
       IN  /\ inflight' = [inflight EXCEPT ![i] = Idle]
           /\ IF result \in {"throw", "httpError", "errors"} THEN
                  /\ ev' = [Answer("levels", h.req, 500, LookupFailed)
                               EXCEPT !.arg = <<result>>]
                  /\ UNCHANGED cache
              ELSE
                  /\ cache' = (h.cacheKey :> [t |-> h.now, v |-> payload]) @@ cache
                  /\ ev' = [Answer("levels", h.req, 200, payload)
                               EXCEPT !.arg = <<result, edges>>]
    /\ UNCHANGED <<deployment, SHOP, API_KEY, API_SECRET, APP_URL, ADMIN_TOKEN,
                   allowSet, stateStore, issued, now, fnIn, fnOut>>


-----------------------------------------------------------------------------
(* the requests the environment sends *)

Present(k, v) == IF IsUndef(v) THEN <<>> ELSE <<[k |-> k, v |-> v]>>

\* the query object of a callback URL carrying these parameters
ParamsOf(f) ==
    Present("shop", f.shop) \o Present("code", f.code) \o Present("state", f.state)
        \o Present("timestamp", f.timestamp) \o Present("host", f.host)

WithHmac(params, hmac) == params \o Present("hmac", hmac)

ShopVals == {StrV(S(s)) : s \in Shops}
HostVals == {Undefined, StrV(<<Ch("a"), Ch(","), Ch("b")>>), ArrV(<<S("a"), S("b")>>)}

\* a state token with its payload rewritten for another shop, signature kept
Reshop(token, shop) ==
    LET payloadB64 == Split(token, ".")[1]
        payload == JSONparse(b64urlDecode(payloadB64))
    IN  b64urlEncode(JSONstringify([payload EXCEPT !.shop = shop]))
            \o S(".") \o Split(token, ".")[2]

\* state values a callback may carry: issued ones, forged and malformed ones
ServerStateVals ==
    {StrV(S("junk")),
     StrV(createStateToken(StrV(S("s1")), now, "n1", AttackerKey))}
        \cup {StrV(t) : t \in issued}
        \cup {StrV(Reshop(t, StrV(S("s2")))) : t \in issued}

RouterStateVals == {StrV(<<[rnd |-> r]>>) : r \in StoreNonces}

\* callback parameter sets with nothing missing
CallbackFields(stateVals) ==
    [shop : ShopVals, code : {StrV(S("c1"))}, state : stateVals,
     timestamp : {StrV(S("t1"))}, host : HostVals]

\* the parameter sets one change away from f (f itself among them)
Tampers(f) ==
    IF IsUndef(f.host) THEN
        {[f EXCEPT !.shop = v] : v \in ShopVals}
            \cup {[f EXCEPT !.code = StrV(S("c2"))]}
            \cup {[f EXCEPT !.timestamp = v] : v \in {Undefined, StrV(S("t2"))}}
            \cup {[f EXCEPT !.host = v] : v \in HostVals}
    ELSE {[f EXCEPT !.host = v] : v \in HostVals}

\* The counterparty's signing: the parameters other than hmac and signature
\* in ascending key order, key=value with the values of a multi-valued
\* parameter joined by a comma, the pairs joined by &; values percent-encoded
\* (EncodedMessage) or not (PlainMessage).
RECURSIVE PairsFrom(_, _, _)
PairsFrom(queryObj, i, encode) ==
    IF i > Len(KeyOrder) THEN <<>>
    ELSE LET k == KeyOrder[i]
             v == Get(queryObj, k)
             text == IF encode THEN encodeURIComponent(ToStr(v)) ELSE ToStr(v)
         IN  (IF k \in {"hmac", "signature"} \/ IsUndef(v) THEN <<>>
              ELSE <<S(k) \o S("=") \o text>>)
                 \o PairsFrom(queryObj, i + 1, encode)

EncodedMessage(queryObj) == Join(PairsFrom(queryObj, 1, TRUE), S("&"))
PlainMessage(queryObj) == Join(PairsFrom(queryObj, 1, FALSE), S("&"))

\* sign(P, K) for the percent-encoding variant
sign(queryObj, key) == HmacHex(key, EncodedMessage(queryObj))

\* hmac values a callback may carry, given the message function of its signer:
\* signatures over f or over a parameter set one change away, and malformed ones
HmacVals(f, Message(_)) ==
    {StrV(HmacHex(PlatformSecret, Message(ParamsOf(g)))) : g \in Tampers(f)}
        \cup (IF IsUndef(f.host)
              THEN {Undefined, ObjV, ArrV(<<S("x")>>),
                    StrV(HmacHex(AttackerKey, Message(ParamsOf(f)))),
                    StrV(HmacHex(PlatformSecret, Message(ParamsOf(f))) \o S("0"))}
              ELSE {})

\* f with one required parameter left out, signed as received
Incomplete(f) ==
    IF IsUndef(f.host)
    THEN {[f EXCEPT !.shop = Undefined], [f EXCEPT !.code = Undefined],
          [f EXCEPT !.state = Undefined]}
    ELSE {}

CallbacksOf(f, Message(_)) ==
    {WithHmac(ParamsOf(f), h) : h \in HmacVals(f, Message)}
        \cup {WithHmac(ParamsOf(g), StrV(HmacHex(PlatformSecret, Message(ParamsOf(g)))))
                 : g \in Incomplete(f)}

ServerCallbacks ==
    UNION {CallbacksOf(f, EncodedMessage) : f \in CallbackFields(ServerStateVals)}

RouterCallbacks ==
    UNION {CallbacksOf(f, PlainMessage) : f \in CallbackFields(RouterStateVals)}

InstallShops == ShopVals \cup {Undefined}

-----------------------------------------------------------------------------
(* the install/callback flow of either deployment *)

NextAuth ==
    \/ Deliver
    \/ Tick
    \/ \E shop \in InstallShops : InstallServer(shop)
    \/ \E shop \in InstallShops : InstallRouter(shop)
    \/ /\ deployment = "server"
       /\ ev = NoEvent
       /\ \E q \in ServerCallbacks : CallbackServer(q)
    \/ /\ deployment = "router"
       /\ ev = NoEvent
       /\ \E q \in RouterCallbacks : CallbackRouter(q)
    \/ \E i \in 1..MaxInflight, r \in ExchangeResults : CallbackServerDone(i, r)
    \/ \E i \in 1..MaxInflight, r \in ExchangeResults : CallbackRouterDone(i, r)

SpecAuth == InitAuth /\ [][NextAuth]_vars


-----------------------------------------------------------------------------
(* the install/callback flow with callbacks that differ in shop and state *)

\* complete callbacks without host, signed as received by the platform or by
\* another key
TokenCallbacksOf(stateVals, Message(_)) ==
    {WithHmac(ParamsOf(f), StrV(HmacHex(key, Message(ParamsOf(f)))))
        : f \in {g \in CallbackFields(stateVals) : IsUndef(g.host)},
          key \in {PlatformSecret, AttackerKey}}

NextToken ==
    \/ Deliver
    \/ Tick
    \/ \E shop \in InstallShops : InstallServer(shop)
    \/ \E shop \in InstallShops : InstallRouter(shop)
    \/ /\ deployment = "server"
       /\ ev = NoEvent
       /\ \E q \in TokenCallbacksOf(ServerStateVals, EncodedMessage) : CallbackServer(q)
    \/ /\ deployment = "router"
       /\ ev = NoEvent
       /\ \E q \in TokenCallbacksOf(RouterStateVals, PlainMessage) : CallbackRouter(q)
    \/ \E i \in 1..MaxInflight, r \in ExchangeResults : CallbackServerDone(i, r)
    \/ \E i \in 1..MaxInflight, r \in ExchangeResults : CallbackRouterDone(i, r)

SpecToken == InitAuth /\ [][NextToken]_vars

-----------------------------------------------------------------------------
(* the proxy endpoint *)

\* requests with the configured store's header and every shape of variant_id,
\* and requests with the header missing or of another store
ProxyRequests ==
    [domain : {StrV(S("s1"))},
     variant_id : {Undefined, StrV(S("1")), StrV(GidPrefix \o S("1")), ArrV(<<S("1")>>)}]
    \cup [domain : {Undefined, StrV(S("s2"))}, variant_id : {Undefined, StrV(S("1"))}]

NextProxy ==
    \/ Deliver
    \/ Tick
    \/ \E req \in ProxyRequests : ProxyStart(req)
    \/ \E i \in 1..MaxInflight, r \in ItemResults : ProxyItem(i, r)
    \/ \E i \in 1..MaxInflight, r \in {"throw", "httpError", "errors", "data"},
          edges \in LevelEdges : ProxyLevels(i, r, edges)

SpecProxy == InitProxy /\ [][NextProxy]_vars

-----------------------------------------------------------------------------
(* the whole process, handlers interleaving at their awaits *)

\* one handler more may be suspended than in the flows taken alone
Concurrent == MaxInflight + 1

\* the proxy requests of the storefront: the configured store's domain or
\* another one, one variant
StorefrontRequests ==
    [domain : ShopVals, variant_id : {StrV(S("1"))}]

\* the upstream answers, one failure standing for the three
ItemAnswers == {"errors", "noItem", "item"}
LevelAnswers == {"errors", "data"}

Init ==
    /\ \E d \in {"server", "router"},
          c \in {FullConfig, [FullConfig EXCEPT !.ADMIN_TOKEN = NoToken]} :
          InitSlots(d, c, Concurrent)
    /\ fnIn = <<>>
    /\ fnOut = "none"

Next ==
    \/ Deliver
    \/ Tick
    \/ \E shop \in InstallShops : InstallServer(shop)
    \/ \E shop \in InstallShops : InstallRouter(shop)
    \/ /\ deployment = "server"
       /\ ev = NoEvent
       /\ \E q \in TokenCallbacksOf(ServerStateVals, EncodedMessage) : CallbackServer(q)
    \/ /\ deployment = "router"
       /\ ev = NoEvent
       /\ \E q \in TokenCallbacksOf(RouterStateVals, PlainMessage) : CallbackRouter(q)
    \/ \E i \in DOMAIN inflight, r \in ExchangeResults : CallbackServerDone(i, r)
    \/ \E i \in DOMAIN inflight, r \in ExchangeResults : CallbackRouterDone(i, r)
    \/ \E req \in StorefrontRequests : ProxyStart(req)
    \/ \E i \in DOMAIN inflight, r \in ItemAnswers : ProxyItem(i, r)
    \/ \E i \in DOMAIN inflight, r \in LevelAnswers, edges \in LevelEdges :
          ProxyLevels(i, r, edges)

Spec == Init /\ [][Next]_vars

-----------------------------------------------------------------------------
(* the signature verifier on its own *)

\* the sequences that list every member of the set es once
Orderings(es) ==
    {o \in [1..Cardinality(es) -> es] : \A i, j \in 1..Cardinality(es) : o[i] = o[j] => i = j}

SigSecrets == {UNSET, "k-app", "k-other"}

SigFields ==
    [shop : {Undefined, StrV(S("s1"))},
     host : HostVals \cup {ObjV},
     signature : {Undefined, StrV(S("zz"))}]

SigParams(f) ==
    Present("shop", f.shop) \o Present("host", f.host) \o Present("signature", f.signature)

\* hmac entries: the signature of the parameters, that with a "0" appended, one
\* under another key, one over other parameters, and malformed ones
SigHmacs(f, key) ==
    {Undefined, ObjV, ArrV(<<S("x")>>),
     StrV(sign(SigParams(f), key)),
     StrV(sign(SigParams(f), key) \o S("0")),
     StrV(sign(SigParams(f), "k-third")),
     StrV(sign(SigParams([f EXCEPT !.shop = StrV(S("s2"))]), key))}

Entries(q) == {q[i] : i \in 1..Len(q)}

SigInputs ==
    UNION {UNION {UNION {{[queryObj |-> o, apiSecret |-> key]
                           : o \in Orderings(Entries(WithHmac(SigParams(f), h)))}
                         : h \in SigHmacs(f, key)}
                     : f \in SigFields}
              : key \in SigSecrets}

InitSig ==
    /\ InitWith("server", FullConfig)
    /\ fnIn \in SigInputs
    /\ fnOut = "none"

\* verifyShopifyHmac applied to the input
ApplyVerify ==
    /\ fnOut = "none"
    /\ fnOut' = verifyShopifyHmac(fnIn.queryObj, fnIn.apiSecret)
    /\ UNCHANGED <<deployment, SHOP, API_KEY, API_SECRET, APP_URL, ADMIN_TOKEN,
                   allowSet, cache, stateStore, issued, now, inflight, ev, fnIn>>

SpecSig == InitSig /\ [][ApplyVerify]_vars


-----------------------------------------------------------------------------
(* the making of the levels payload on its own *)

MaxEdges == 3      \* edges in the answer to the levels query

\* two locations may bear the same name
Locations ==
    { [id |-> "L1", name |-> "Store"], [id |-> "L2", name |-> "Warehouse"],
      [id |-> "L3", name |-> "Annex"], [id |-> "L4", name |-> "Store"] }

EdgeNodes ==
    { [id |-> l.id, name |-> l.name, available |-> a]
        : l \in Locations, a \in {Null, Num(5)} }

EdgeLists == UNION {[1..n -> EdgeNodes] : n \in 0..MaxEdges}

AllowLists == { {}, {"L1"}, {"L2", "L3"}, {"L9"} }

InitLevels ==
    /\ InitWith("server", FullConfig)
    /\ fnIn \in [edges : EdgeLists, allow : AllowLists]
    /\ fnOut = "none"

\* lines 238-248 of the proxy handler applied to the input
ApplyLevels ==
    /\ ev = NoEvent
    /\ ev' = [op |-> "payload", body |-> LevelsPayload(fnIn.edges, fnIn.allow)]
    /\ UNCHANGED <<deployment, SHOP, API_KEY, API_SECRET, APP_URL, ADMIN_TOKEN,
                   allowSet, cache, stateStore, issued, now, inflight, fnIn, fnOut>>

SpecLevels == InitLevels /\ [][ApplyLevels]_vars

-----------------------------------------------------------------------------
(* what the claims speak of *)

\* the parameters of a callback query, by name
FieldsOf(q) ==
    [shop |-> Get(q, "shop"), code |-> Get(q, "code"), state |-> Get(q, "state"),
     timestamp |-> Get(q, "timestamp"), host |-> Get(q, "host")]

\* the message the counterparty signs in this deployment
SignedMessage(params) ==
    IF deployment = "server" THEN EncodedMessage(params) ELSE PlainMessage(params)

\* the hmac of q is the signature, under the app secret, of the parameters g
SignedOver(q, g) ==
    /\ API_SECRET # UNSET
    /\ Get(q, "hmac") = StrV(HmacHex(API_SECRET, SignedMessage(ParamsOf(g))))

\* the hmac of q is the signature of exactly the parameters q carries
SignedAsReceived(q) == SignedOver(q, FieldsOf(q))

\* the hmac of q was computed over parameters other than those q carries
SignedOverOthers(q) ==
    \E g \in Tampers(FieldsOf(q)) : g # FieldsOf(q) /\ SignedOver(q, g)

AllPresent(q) ==
    \A k \in {"shop", "hmac", "code", "state"} :
        ~IsUndef(Get(q, k)) /\ Get(q, k) # StrV(<<>>)

\* the payload a state token of server.js carries
PayloadOf(token) == Head(Head(token).b64).json

\* the state of q is a token handed out by an install of server.js
CarriesIssued(q) == IsStr(Get(q, "state")) /\ Get(q, "state").str \in issued

\* redeem(token, S) in the strategy of the deployment
Redeems(state, shop) ==
    IF deployment = "server"
    THEN /\ CarriesIssued(<<[k |-> "state", v |-> state]>>)
         /\ PayloadOf(state.str).shop = shop
         /\ now - PayloadOf(state.str).ts <= MaxAgeMs
    ELSE IsStr(state) /\ state.str \in DOMAIN stateStore

\* the state of q was handed out by an install of this deployment
StateIssued(q) ==
    IF deployment = "server" THEN CarriesIssued(q)
    ELSE IsStr(Get(q, "state")) /\ Get(q, "state").str \in DOMAIN stateStore

IsCallback == ev.op = "callback"

\* C1: the token exchange is called only for a callback that has shop, hmac,
\* code and state, whose signature verifies and whose state token redeems; a
\* callback whose signature was computed over parameters other than the ones
\* received is answered 400 and calls no token exchange.
C1_ExchangeOnlyWhenVerified ==
    IsCallback =>
        /\ ev.call = "exchange" =>
              /\ AllPresent(ev.req)
              /\ SignedAsReceived(ev.req)
              /\ Redeems(Get(ev.req, "state"), Get(ev.req, "shop"))
        /\ (AllPresent(ev.req) /\ SignedOverOthers(ev.req)
               /\ ~SignedAsReceived(ev.req)) =>
              ev.status = 400 /\ ev.call = "none"

\* C2: the signature check covers every received parameter but hmac and
\* signature: a validly signed callback, its state one that an install handed
\* out, with any other parameter changed, added or removed is answered 400
\* "Invalid HMAC".
C2_EveryParameterSigned ==
    (IsCallback /\ AllPresent(ev.req) /\ StateIssued(ev.req)
        /\ SignedOverOthers(ev.req) /\ ~SignedAsReceived(ev.req)) =>
        ev.status = 400 /\ ev.body = "Invalid HMAC"


\* C3: a proxy request whose store-domain header is absent or differs from the
\* configured store is answered 403, one with the right header and no
\* variant_id 400; neither calls upstream nor changes the cache, and the 403
\* check comes first.
C3_RejectedBeforeAnyEffect ==
    [][(ev = NoEvent /\ ev'.op = "proxy") =>
          LET req == ev'.req
              rightDomain == SHOP # UNSET /\ req.domain = StrV(S(SHOP))
          IN  /\ ~rightDomain =>
                    /\ ev'.status = 403
                    /\ ev'.call = "none"
                    /\ cache' = cache
                    /\ inflight' = inflight
              /\ (rightDomain /\ IsUndef(req.variant_id)) =>
                    /\ ev'.status = 400
                    /\ ev'.call = "none"
                    /\ cache' = cache
                    /\ inflight' = inflight]_vars

C3_Witness ==
    /\ ev.op = "proxy"
    /\ ev.status = 403
    /\ IsStr(ev.req.domain)
    /\ IsUndef(ev.req.variant_id)
    /\ DOMAIN cache # {}

\* C4: right after an install hands out a state token for subject S, the token
\* redeems for S: verifyStateToken accepts it with no time elapsed (server.js),
\* the state store holds it (auth.js).
C4_FreshTokenRedeems ==
    (ev.op = "install" /\ ev.status = 302) =>
        IF deployment = "server"
        THEN verifyStateToken(StrV(ev.body.state), ev.req.shop, MaxAgeMs, now,
                              API_SECRET) = "true"
        ELSE ev.body.state \in DOMAIN stateStore

C4_Witness ==
    /\ ev.op = "install"
    /\ ev.status = 302
    /\ deployment = "server"
    /\ ev.req.shop = StrV(S("s2"))
    /\ now > StartMs

\* C5: a self-verifying token no longer redeems once more than maxAgeMs has
\* passed since it was issued, whatever the subject; a callback carrying such a
\* token never reaches the token exchange and, its parameters present and its
\* signature good, is answered 400 "Invalid state".
C5_ExpiredTokenRejected ==
    /\ \A t \in issued, shop \in ShopVals, maxAgeMs \in {HalfTtl, MaxAgeMs} :
          now - PayloadOf(t).ts > maxAgeMs =>
              verifyStateToken(StrV(t), shop, maxAgeMs, now, API_SECRET) = "false"
    /\ (IsCallback /\ deployment = "server" /\ CarriesIssued(ev.req)
           /\ now - PayloadOf(Get(ev.req, "state").str).ts > MaxAgeMs) =>
          /\ ev.call = "none"
          /\ ev.status # 200
          /\ (AllPresent(ev.req) /\ SignedAsReceived(ev.req)) =>
                ev.status = 400 /\ ev.body = "Invalid state"

C5_Witness ==
    /\ IsCallback
    /\ deployment = "server"
    /\ CarriesIssued(ev.req)
    /\ PayloadOf(Get(ev.req, "state").str).shop = Get(ev.req, "shop")
    /\ now - PayloadOf(Get(ev.req, "state").str).ts > MaxAgeMs
    /\ SignedAsReceived(ev.req)
    /\ ev.body = "Invalid state"

\* C6: a self-verifying token issued for subject S does not redeem for another
\* subject; a callback for shop S2 carrying a token issued for S never reaches
\* the token exchange and, its parameters present and its signature good, is
\* answered 400 "Invalid state".
C6_TokenBoundToSubject ==
    /\ \A t \in issued, shop \in ShopVals :
          shop # PayloadOf(t).shop =>
              verifyStateToken(StrV(t), shop, MaxAgeMs, now, API_SECRET) = "false"
    /\ (IsCallback /\ deployment = "server" /\ CarriesIssued(ev.req)
           /\ ~IsUndef(Get(ev.req, "shop"))
           /\ PayloadOf(Get(ev.req, "state").str).shop # Get(ev.req, "shop")) =>
          /\ ev.call = "none"
          /\ ev.status # 200
          /\ (AllPresent(ev.req) /\ SignedAsReceived(ev.req)) =>
                ev.status = 400 /\ ev.body = "Invalid state"

C6_Witness ==
    /\ IsCallback
    /\ deployment = "server"
    /\ CarriesIssued(ev.req)
    /\ PayloadOf(Get(ev.req, "state").str).shop = StrV(S("s1"))
    /\ Get(ev.req, "shop") = StrV(S("s2"))
    /\ now - PayloadOf(Get(ev.req, "state").str).ts < MaxAgeMs
    /\ SignedAsReceived(ev.req)
    /\ ev.body = "Invalid state"

\* C7: for every parameter mapping P and secret K, the verifier accepts P with
\* hmac sign(P, K) and rejects P with hmac sign(P, K) followed by "0", in
\* whatever order the keys of P are supplied.
C7_SignThenVerify ==
    (fnOut # "none" /\ fnIn.apiSecret # UNSET) =>
        LET q == fnIn.queryObj
            K == fnIn.apiSecret
        IN  /\ Get(q, "hmac") = StrV(sign(q, K)) => fnOut = "true"
            /\ Get(q, "hmac") = StrV(sign(q, K) \o S("0")) => fnOut = "false"
            /\ \A o \in Orderings(Entries(q)) : verifyShopifyHmac(o, K) = fnOut

C7_Witness ==
    /\ fnOut = "true"
    /\ Len(fnIn.queryObj) = 4
    /\ fnIn.queryObj[1].k = "hmac"
    /\ fnIn.queryObj[2].k = "shop"
    /\ IsArr(Get(fnIn.queryObj, "host"))

\* C8: the signature verifier returns false and never throws, also when the
\* hmac entry is missing or not a string and when the secret is missing.
C8_VerifierNeverThrows ==
    fnOut # "none" =>
        /\ fnOut \in {"true", "false"}
        /\ (~IsStr(Get(fnIn.queryObj, "hmac")) \/ fnIn.apiSecret = UNSET) =>
              fnOut = "false"

\* the cache key of the request the last step handled
KeyOf(e) == S("levels:") \o e.req.variant_id.str

\* C9: a get right after put(k, v) returns v; 60,000 ms or more after the
\* entry's timestamp get(k) returns absent; a proxy request for a variant whose
\* entry is younger than 60,000 ms is answered 200 with the stored payload,
\* without an upstream call and without a change to the cache; one at age
\* 60,000 ms or more is not answered from the cache.
C9_CacheWindow ==
    [][/\ (ev'.op = "levels" /\ ev'.status = 200) =>
             /\ KeyOf(ev') \in DOMAIN cache'
             /\ now' - cache'[KeyOf(ev')].t < 60000
             /\ cache'[KeyOf(ev')].v = ev'.body
       /\ (ev = NoEvent /\ ev'.op = "proxy" /\ ev'.status # 403
              /\ IsStr(ev'.req.variant_id) /\ KeyOf(ev') \in DOMAIN cache) =>
             IF now - cache[KeyOf(ev')].t < 60000
             THEN /\ ev'.status = 200
                  /\ ev'.body = cache[KeyOf(ev')].v
                  /\ ev'.call = "none"
                  /\ cache' = cache
                  /\ inflight' = inflight
             ELSE ev'.status # 200]_vars

\* C10: every proxy cache miss answered 200 has stored the payload it returns
\* in the cache under the raw variant identifier, also when the variant has no
\* inventory item and the payload is the empty list of levels.
C10_MissResultCached ==
    (ev.op \in {"item", "levels"} /\ ev.status = 200) =>
        /\ KeyOf(ev) \in DOMAIN cache
        /\ cache[KeyOf(ev)].v = ev.body

\* the outcomes of an upstream query that make adminGraphQL throw
UpstreamFailures == {"throw", "httpError", "errors"}

Handles(op) == ev'.op = op

\* C12: the active credential changes exactly when a token exchange succeeds:
\* after a callback answered 200 it is the access token that exchange returned
\* and the proxy queries sent from then on carry it; a callback answered 400 or
\* 500, an install and a proxy step leave it as it was.
C12_CredentialSetByExchange ==
    [][/\ ADMIN_TOKEN' # ADMIN_TOKEN => (Handles("exchanged") /\ ev'.status = 200)
       /\ (Handles("exchanged") /\ ev'.status = 200) => ADMIN_TOKEN' = ev'.arg[2]
       /\ ((Handles("callback") \/ Handles("exchanged")) /\ ev'.status \in {400, 500}) =>
             ADMIN_TOKEN' = ADMIN_TOKEN
       /\ (Handles("install") \/ Handles("proxy") \/ Handles("item")
              \/ Handles("levels")) =>
             ADMIN_TOKEN' = ADMIN_TOKEN
       /\ ((Handles("proxy") \/ Handles("item")) /\ ev'.call \in {"q1", "q2"}) =>
             ev'.arg.token = ADMIN_TOKEN']_vars

\* the callback the step handles carries a token of server.js for its own shop
\* that was issued no more than MaxAgeMs ago
InWindow(q) ==
    /\ CarriesIssued(q)
    /\ PayloadOf(Get(q, "state").str).shop = Get(q, "shop")
    /\ now - PayloadOf(Get(q, "state").str).ts <= MaxAgeMs

\* the signature check of the deployment accepts q
PassesHmac(q) ==
    IF deployment = "router" THEN routerHmacOk(q, API_SECRET) = "true"
    ELSE verifyShopifyHmac(q, API_SECRET) = "true"

\* C13: redeeming a state token does not consume it. The state store keeps
\* every key it has; after a token exchange has come back, the token of that
\* callback still redeems (auth.js: it is in the store; server.js: it verifies,
\* while no more than 600,000 ms old); and a complete callback that passes the
\* signature check and carries a stored token (auth.js, at any age) or a token
\* in its window (server.js) goes on to the token exchange whatever callbacks
\* came before.
C13_RedeemDoesNotConsume ==
    [][/\ DOMAIN stateStore \subseteq DOMAIN stateStore'
       /\ Handles("exchanged") =>
             IF deployment = "router"
             THEN Get(ev'.req, "state").str \in DOMAIN stateStore'
             ELSE InWindow(ev'.req) =>
                     verifyStateToken(Get(ev'.req, "state"), Get(ev'.req, "shop"),
                                      MaxAgeMs, now', API_SECRET') = "true"
       /\ (Handles("callback") /\ AllPresent(ev'.req) /\ PassesHmac(ev'.req)
              /\ (IF deployment = "router" THEN StateIssued(ev'.req)
                   ELSE InWindow(ev'.req))) =>
             ev'.call = "exchange"]_vars

\* server.js has accepted the only token it issued once, the exchange has set
\* the credential, and a callback with the same token is accepted again
C13_Witness ==
    /\ deployment = "server"
    /\ Cardinality(issued) = 1
    /\ ADMIN_TOKEN = PlatformToken(S("s2"))
    /\ IsCallback
    /\ ev.call = "exchange"
    /\ now > PayloadOf(CHOOSE t \in issued : TRUE).ts

\* C14: an install without shop is answered 400, one in a process without
\* client id, client secret or callback base URL 500, and neither issues a
\* token nor records a state; any other install is answered 302 to the
\* authorization URL of the shop, carrying the client id, the callback URL and
\* a state token issued (server.js) or recorded (auth.js) by this step.
C14_InstallAnswers ==
    [][Handles("install") =>
          LET shop == ev'.req.shop
              unconfigured == API_KEY = UNSET \/ API_SECRET = UNSET \/ APP_URL = UNSET
          IN  IF IsUndef(shop) \/ shop = StrV(<<>>) THEN
                  /\ ev'.status = 400
                  /\ issued' = issued
                  /\ stateStore' = stateStore
              ELSE IF unconfigured THEN
                  /\ ev'.status = 500
                  /\ issued' = issued
                  /\ stateStore' = stateStore
              ELSE
                  /\ ev'.status = 302
                  /\ ev'.body.host = shop.str
                  /\ ev'.body.client_id = API_KEY
                  /\ ev'.body.redirect_uri = APP_URL
                  /\ IF deployment = "server"
                     THEN ev'.body.state \in issued'
                     ELSE /\ ev'.body.state \in DOMAIN stateStore'
                          /\ stateStore'[ev'.body.state] = now]_vars

\* the level the storefront is to see for an edge of the upstream answer
LevelOf(e) ==
    [locationId |-> e.id, location |-> e.name,
     available |-> IF e.available = Null THEN 0 ELSE e.available.n]

\* the positions of the edges the allow-list lets through
Allowed(edges, allow) ==
    {i \in 1..Len(edges) : allow = {} \/ edges[i].id \in allow}

\* levels holds, as often as the allowed edges give it, each level of an
\* allowed edge and nothing else, in ascending order of location name
RightLevels(levels, edges, allow) ==
    /\ Len(levels) = Cardinality(Allowed(edges, allow))
    /\ \A i \in Allowed(edges, allow) :
          Cardinality({j \in 1..Len(levels) : levels[j] = LevelOf(edges[i])})
              = Cardinality({k \in Allowed(edges, allow) :
                                 LevelOf(edges[k]) = LevelOf(edges[i])})
    /\ \A j \in 1..Len(levels) : allow # {} => levels[j].locationId \in allow
    /\ \A j, k \in 1..Len(levels) :
          j < k => NameIndex(levels[j].location) <= NameIndex(levels[k].location)

\* C15: for every upstream level list and allow-list the payload holds exactly
\* the levels of the edges whose location id the allow-list has (all of them
\* when it is empty), available 0 where upstream gave none, ascending by
\* location name.
C15_LevelsFilteredSorted ==
    ev.op = "payload" => RightLevels(ev.body.levels, fnIn.edges, fnIn.allow)

C15_Witness ==
    /\ ev.op = "payload"
    /\ fnIn.allow = {"L2", "L3"}
    /\ Len(fnIn.edges) = 3
    /\ fnIn.edges[1].id = "L2"
    /\ fnIn.edges[2].id = "L1"
    /\ fnIn.edges[3] = [id |-> "L3", name |-> "Annex", available |-> Null]
    /\ Len(ev.body.levels) = 2
    /\ ev.body.levels[1] = [locationId |-> "L3", location |-> "Annex", available |-> 0]

\* C16: the timestamp stored with a cache entry is the time of its insertion,
\* however long the upstream calls of the inserting request took, so that the
\* entry serves the requests of the 60,000 ms that follow the insertion.
C16_StampedAtInsertion ==
    [][(Handles("levels") /\ ev'.status = 200) =>
          /\ KeyOf(ev') \in DOMAIN cache'
          /\ cache'[KeyOf(ev')].t = now'
          /\ \A d \in {0, HalfTtl, TTL_MS - 1} :
                (now' + d) - cache'[KeyOf(ev')].t < TTL_MS]_vars

\* the answer of the upstream query the step took
Got(e) == IF e.status = 0 THEN e.got ELSE e.arg[1]

\* the handler the step resumes or suspends: the slot that changes
Stepped(i) == inflight'[i] # inflight[i]

\* C17: the levels query of a request is sent only by the step that takes the
\* answer to its variant-to-item query, when that answer holds an inventory
\* item, and it asks for the levels of exactly that item; the first query asks
\* for the variant of the request; when the answer holds no item the request is
\* answered 200 with an empty list of levels and no levels query is sent; an
\* answer to a levels query is taken only by a handler that sent one.
C17_QueriesChained ==
    [][/\ (ev'.op \in {"proxy", "item", "levels"} /\ ev'.call = "q1") =>
             /\ Handles("proxy")
             /\ ev'.arg.query = "VariantToItem"
             /\ ev'.arg.id = VariantGID(ev'.req.variant_id.str)
       /\ (ev'.op \in {"proxy", "item", "levels"} /\ ev'.call = "q2") =>
             /\ Handles("item")
             /\ ev'.arg.query = "ItemLevels"
             /\ \E i \in DOMAIN inflight :
                   /\ Stepped(i)
                   /\ inflight[i].pc = "q1"
                   /\ inflight[i].req = ev'.req
                   /\ inflight'[i].pc = "q2"
                   /\ inflight'[i].calls = <<inflight[i].calls[1], ev'.arg>>
             /\ ev'.got \in {"item", "otherItem"}
             /\ ev'.arg.id = (IF ev'.got = "item" THEN ItemId ELSE OtherItemId)
       /\ (Handles("item") /\ Got(ev') = "noItem") =>
             /\ ev'.status = 200
             /\ ev'.body = [levels |-> <<>>]
             /\ ev'.call = "none"
             /\ \A i \in DOMAIN inflight : Stepped(i) => inflight'[i] = Idle
       /\ Handles("levels") =>
             \E i \in DOMAIN inflight :
                 /\ Stepped(i)
                 /\ inflight[i].pc = "q2"
                 /\ Len(inflight[i].calls) = 2
                 /\ inflight'[i] = Idle]_vars

C17_Witness ==
    /\ ev.op = "item"
    /\ ev.call = "q2"
    /\ ev.arg.id = OtherItemId
    /\ ev.req.variant_id = StrV(S("1"))

\* C18: the two upstream queries of one proxy request carry the same access
\* credential, also when a callback's token exchange completes between them.
C18_OneCredentialPerRequest ==
    \A i \in DOMAIN inflight :
        (inflight[i].kind = "proxy" /\ Len(inflight[i].calls) = 2) =>
            inflight[i].calls[1].token = inflight[i].calls[2].token

\* C19: a cache write never replaces an entry by one with an older timestamp:
\* for every key the stored timestamp never decreases, whatever the
\* interleaving of the requests that miss on it.
C19_TimestampsNeverDecrease ==
    [][\A k \in DOMAIN cache :
          k \in DOMAIN cache' /\ cache'[k].t >= cache[k].t]_vars

\* C20: a credential obtained by a token exchange and sent by a proxy read to
\* the configured store was handed out for that store: the token of a callback
\* for another shop is never used against the configured store.
C20_CredentialOfConfiguredStore ==
    \A i \in DOMAIN inflight :
        inflight[i].kind = "proxy" =>
            \A n \in DOMAIN inflight[i].calls :
                inflight[i].calls[n].token.tok = "at" =>
                    inflight[i].calls[n].token.shop = inflight[i].calls[n].host

=============================================================================
